---- MODULE Spec2Model ----
(***************************************************************************)
(* The realtime session server of the shared whiteboard                    *)
(* (src/server/src/index.ts, the shared-history version, lines 176-372):   *)
(* per-room history stack with cursor, room membership, the fan-out of     *)
(* state updates, the cursor relay and the cold-load of a room on join;    *)
(* with it the auto-save of the canvas page (src/unnamed/part_011), the    *)
(* PUT and DELETE routes of the document store                             *)
(* (src/app/api/canvas/[id]/route.ts) and the delete button                *)
(* (src/components/DeleteCanvasButton.tsx); and the local history of the   *)
(* drawing component (src/components/Canvas.tsx).                          *)
(***************************************************************************)
EXTENDS Integers, Sequences, FiniteSets, TLC

\* ---------------------------------------------------------------- bounds
\* frames the history of a room reaches: no edit is taken that goes beyond
MaxHist == 3

\* elements created in a run, each with the id of one uuid() call
MaxUuid == 1

\* cold-loads awaited at one time
MaxPending == 2

\* the same two bounds for the runs with two canvases
MaxHistRooms == 2
MaxPendingRooms == 1

\* PUT requests of the pages that are unanswered at one time
MaxSaves == 2

\* the same in the runs with the handlers of the drawing board
MaxSavesPage == 1

\* the strokes drawn on the drawing component
MaxLines == 52

\* the elements a page shows when a handler of its drawing board adds one
MaxShown == 1

\* The history cap of the specification ("H_MAX", configurable).  The server
\* code defines no such constant; it is used by the statements about the
\* cap only.
H_MAX == 2

Sessions == {"s1", "s2"}
Rooms == {"r1", "r2"}

\* every canvas id a client names in some run
CanvasIds == Rooms \cup {"r3"}
Null == "null"

\* type tags a create may carry; "sticker" is a tag the server does not know
Types == {"line", "shape", "text", "sticker"}

\* ------------------------------------------------------------- documents
EmptyCanvasData == [lines |-> <<>>, shapes |-> <<>>, texts |-> <<>>]

\* `${data.type}-${uuid()}`
ElementId(type, n) == [type |-> type, uuid |-> n]

\* an id no element ever carries
UnknownId == ElementId("line", 0 - 1)

\* What the document store holds for a canvas at the start: one text for r1,
\* a line and two texts for r3, an empty document for r2.
StoredData(canvasId) ==
    IF canvasId = "r1"
    THEN [lines |-> <<>>, shapes |-> <<>>,
          texts |-> <<[id |-> ElementId("text", 0), userId |-> "s0", createdAt |-> 1]>>]
    ELSE IF canvasId = "r3"
    THEN [lines |-> <<[id |-> ElementId("line", 0 - 2), userId |-> "s0", createdAt |-> 1]>>,
          shapes |-> <<>>,
          texts |-> <<[id |-> ElementId("text", 0 - 2), userId |-> "s0", createdAt |-> 2],
                      [id |-> ElementId("text", 0 - 3), userId |-> "s0", createdAt |-> 3]>>]
    ELSE EmptyCanvasData

\* Outcomes of the fetch of /api/canvas/<id>/data and of response.json()
LoadOutcomes == {"ok", "notOk", "throw", "noData"}

\* elementData as a client may send it: it may carry its own id and userId
ElementPayloads == {[id |-> UnknownId, userId |-> "mallory", createdAt |-> 1]}

VARIABLES
    canvasState,    \* Map<string, RoomState>: a function on the ids it holds
    canvasUsers,    \* Map<string, Set<string>>
    currentCanvas,  \* per connection: the closure variable currentCanvas
    socketRooms,    \* per socket: the socket.io rooms it is in
    connected,      \* per socket: the connection is open
    pending,        \* per socket and room: join handlers awaiting the fetch
    nextUuid,       \* the next value uuid() returns
    client,         \* per socket: what its page holds of the state updates emitted to it
    sent,           \* what the handler that ran last emitted: a sequence of [to, msg]
    store,          \* the document store: per canvas id its document, NoCanvas once deleted
    saves,          \* the PUT requests of the pages that have not been answered yet
    historyState    \* the drawing component: its history of line counts and its index

vars == <<canvasState, canvasUsers, currentCanvas, socketRooms, connected,
          pending, nextUuid, client, sent, store, saves, historyState>>

\* ------------------------------------------------------------------ maps
Has(map, k) == k \in DOMAIN map
MapSet(map, k, v) == [x \in (DOMAIN map) \cup {k} |-> IF x = k THEN v ELSE map[x]]
MapDelete(map, k) == [x \in (DOMAIN map) \ {k} |-> map[x]]
EmptyMap == [x \in {} |-> 0]

\* what indexing an array outside its bounds yields
Undefined == [undefined |-> TRUE]

\* what the document store holds for a canvas that has been deleted
NoCanvas == [notFound |-> TRUE]

\* ------------------------------------------------------------- emission
\* a variant of SocketsIn that leaves out the sockets whose join is not complete
SocketsInLoaded(rooms, canvasId) ==
    {s \in Sessions : connected[s] /\ canvasId \in rooms[s] /\ pending[s][canvasId] = 0}

\* io.to(`canvas:${canvasId}`): the open sockets that are in the room
SocketsIn(rooms, canvasId) == {s \in Sessions : connected[s] /\ canvasId \in rooms[s]}

\* socket.to(`canvas:${canvasId}`): the same, without the sending socket
OthersIn(rooms, canvasId, sock) == SocketsIn(rooms, canvasId) \ {sock}

\* socket.emit: the socket itself, nobody once its connection is closed
Self(sock) == IF connected[sock] THEN {sock} ELSE {}

\* the messages of a sequence of [to, msg] that go to socket s, in order
MsgsFor(s, emitted) ==
    LET Mine(e) == s \in e.to
        mine == SelectSeq(emitted, Mine)
    IN  [i \in 1..Len(mine) |-> mine[i].msg]

\* lines.length > 0 || shapes.length > 0 || texts.length > 0
NonEmpty(elements) == elements \notin {EmptyCanvasData, Undefined}

\* the page's handlers: 'server-state-update' replaces what the page shows, and
\* the effect on lines, shapes and texts clears the auto-save timer and sets it
\* again when there is an element to save; 'canvas-deleted' sends the page away
Receive(view, msg) ==
    IF msg.kind = "server-state-update"
    THEN [view EXCEPT !.state = <<[elements |-> msg.elements,
                                   canUndo |-> msg.canUndo, canRedo |-> msg.canRedo]>>,
                      !.timer = NonEmpty(msg.elements)]
    ELSE IF msg.kind = "canvas-deleted"
    THEN [view EXCEPT !.deleted = TRUE]
    ELSE view

RECURSIVE ReceiveAll(_, _)
ReceiveAll(view, msgs) ==
    IF msgs = <<>> THEN view ELSE ReceiveAll(Receive(view, Head(msgs)), Tail(msgs))

\* The emits of one handler run.  socket.io hands the messages of a socket to
\* its page in the order they were emitted and each state update replaces the
\* one before, so client[s] is what the page of s holds once every message
\* emitted so far has reached it.
Emit(views, emitted) ==
    /\ sent' = emitted
    /\ client' = [s \in Sessions |-> ReceiveAll(views[s], MsgsFor(s, emitted))]

\* roomState.history[roomState.currentIndex]; the index counts from 0
CurrentData(roomState) ==
    IF roomState.currentIndex + 1 \in DOMAIN roomState.history
    THEN roomState.history[roomState.currentIndex + 1]
    ELSE Undefined

\* a variant of StateUpdate whose canRedo compares with the length itself
StateUpdateRedoAtTop(roomState) ==
    [kind |-> "server-state-update",
     elements |-> CurrentData(roomState),
     canUndo |-> roomState.currentIndex > 0,
     canRedo |-> roomState.currentIndex < Len(roomState.history)]

\* the payload of 'server-state-update'
StateUpdate(roomState) ==
    [kind |-> "server-state-update",
     elements |-> CurrentData(roomState),
     canUndo |-> roomState.currentIndex > 0,
     canRedo |-> roomState.currentIndex < Len(roomState.history) - 1]

CanvasUsersMsg(users) == [kind |-> "canvas-users", users |-> users]

UpdateAndBroadcast(canvasId, roomState) ==
    <<[to |-> SocketsIn(socketRooms, canvasId), msg |-> StateUpdate(roomState)]>>

\* the page before any message: isLoading, nothing to show, no timer set
NoView == [state |-> <<>>, timer |-> FALSE, deleted |-> FALSE, lastSaved |-> FALSE]

\* ---------------------------------------------------------------- state
Init ==
    /\ canvasState = EmptyMap
    /\ canvasUsers = EmptyMap
    /\ currentCanvas = [s \in Sessions |-> Null]
    /\ socketRooms = [s \in Sessions |-> {}]
    /\ connected = [s \in Sessions |-> TRUE]
    /\ pending = [s \in Sessions |-> [r \in CanvasIds |-> 0]]
    /\ nextUuid = 1
    /\ client = [s \in Sessions |-> NoView]
    /\ sent = <<>>
    /\ store = [r \in CanvasIds |-> StoredData(r)]
    /\ saves = {}
    /\ historyState = [history |-> <<0>>, index |-> 0]

\* ----------------------------------------------------------- join-canvas
\* a variant of UsersWithout that leaves the socket in the set
UsersWithoutDelete(users, canvasId, sock) == users

\* a variant of UsersWithout that keeps the entry of a room that has emptied
UsersWithoutKeepingEmpty(users, canvasId, sock) ==
    IF ~Has(users, canvasId) THEN users
    ELSE [users EXCEPT ![canvasId] = @ \ {sock}]

\* users.delete(socket.id); if (users.size === 0) canvasUsers.delete(...)
UsersWithout(users, canvasId, sock) ==
    IF ~Has(users, canvasId) THEN users
    ELSE IF users[canvasId] \ {sock} = {} THEN MapDelete(users, canvasId)
    ELSE [users EXCEPT ![canvasId] = @ \ {sock}]

\* ... canvasState.delete(currentCanvas) in the same branch
StateWithout(state, users, canvasId, sock) ==
    IF Has(users, canvasId) /\ users[canvasId] \ {sock} = {}
    THEN MapDelete(state, canvasId)
    ELSE state

\* if (!canvasUsers.has(canvasId)) canvasUsers.set(canvasId, new Set()); ...add(socket.id)
UsersWith(users, canvasId, sock) ==
    MapSet(users, canvasId, (IF Has(users, canvasId) THEN users[canvasId] ELSE {}) \cup {sock})

\* Array.from(canvasUsers.get(canvasId) || [])
UsersOf(users, canvasId) == IF Has(users, canvasId) THEN users[canvasId] ELSE {}

\* a variant of JoinTail that sends the user list with socket.to: not to the joiner
JoinTailToOthers(sock, canvasId, state, users, rooms) ==
    <<[to |-> Self(sock), msg |-> StateUpdate(state[canvasId])],
      [to |-> OthersIn(rooms, canvasId, sock), msg |-> CanvasUsersMsg(UsersOf(users, canvasId))]>>

\* the end of the join handler: the snapshot to the joiner, the user list to the room
JoinTail(sock, canvasId, state, users, rooms) ==
    <<[to |-> Self(sock), msg |-> StateUpdate(state[canvasId])],
      [to |-> SocketsIn(rooms, canvasId), msg |-> CanvasUsersMsg(UsersOf(users, canvasId))]>>

\* the join handlers that are awaiting their fetch
Awaiting == {x \in Sessions \X CanvasIds : pending[x[1]][x[2]] > 0}

RECURSIVE Sum(_)
Sum(S) == IF S = {} THEN 0
          ELSE LET x == CHOOSE y \in S : TRUE
               IN  pending[x[1]][x[2]] + Sum(S \ {x})

Awaited == Sum(Awaiting)

\* 'join-canvas' up to the await (or to its end when the room has state)
JoinCanvas(sock, canvasId) ==
    LET cc == currentCanvas[sock]
        users1 == IF cc # Null THEN UsersWithout(canvasUsers, cc, sock) ELSE canvasUsers
        state1 == IF cc # Null THEN StateWithout(canvasState, canvasUsers, cc, sock) ELSE canvasState
        rooms1 == [socketRooms EXCEPT ![sock] = (@ \ {cc}) \cup {canvasId}]
        users2 == UsersWith(users1, canvasId, sock)
        emitted == IF Has(state1, canvasId)
                THEN JoinTail(sock, canvasId, state1, users2, rooms1)
                ELSE <<>>
    IN  /\ connected[sock]
        /\ Has(state1, canvasId) \/ Awaited < MaxPending
        /\ UNCHANGED <<connected, nextUuid, store, saves>>
        /\ currentCanvas' = [currentCanvas EXCEPT ![sock] = canvasId]
        /\ socketRooms' = rooms1
        /\ canvasUsers' = users2
        /\ canvasState' = state1
        /\ pending' = IF Has(state1, canvasId) THEN pending
                      ELSE [pending EXCEPT ![sock][canvasId] = @ + 1]
        /\ Emit(client, emitted)

\* a variant of InitialCanvasData that reads the body of a response that is not ok
InitialCanvasDataOfAnyResponse(canvasId, outcome) ==
    IF outcome \in {"ok", "notOk"} THEN store[canvasId] ELSE EmptyCanvasData

\* the document the cold-load yields
InitialCanvasData(canvasId, outcome) ==
    IF outcome = "ok" THEN store[canvasId] ELSE EmptyCanvasData

\* a variant of LoadedState that starts a new map with this room as its only entry
LoadedStateAlone(state, canvasId, initialCanvasData) ==
    MapSet(EmptyMap, canvasId, [history |-> <<initialCanvasData>>, currentIndex |-> 0])

\* what the join handler does with the room state once the fetch has returned
LoadedState(state, canvasId, initialCanvasData) ==
    MapSet(state, canvasId, [history |-> <<initialCanvasData>>, currentIndex |-> 0])

\* 'join-canvas' from the return of the fetch to its end
LoadDone(sock, canvasId, outcome) ==
    LET state1 == LoadedState(canvasState, canvasId, InitialCanvasData(canvasId, outcome))
        emitted == JoinTail(sock, canvasId, state1, canvasUsers, socketRooms)
    IN  /\ pending[sock][canvasId] > 0
        /\ outcome = "ok" => store[canvasId] # NoCanvas
        /\ pending' = [pending EXCEPT ![sock][canvasId] = @ - 1]
        /\ UNCHANGED <<canvasUsers, currentCanvas, socketRooms, connected, nextUuid,
                       store, saves>>
        /\ canvasState' = state1
        /\ Emit(client, emitted)


\* ---------------------------------------------------------------- edits
\* JSON.parse(JSON.stringify(currentData)): a copy, equal in content
DeepCopy(currentData) == currentData

\* a variant of HandleEdit that slices one frame short: slice(0, currentIndex)
HandleEditDroppingCurrent(roomState, updatedData) ==
    LET newHistory == Append(SubSeq(roomState.history, 1, roomState.currentIndex), updatedData)
    IN  [history |-> newHistory, currentIndex |-> Len(newHistory) - 1]

\* a variant of HandleEdit that pushes on the whole history, the redo tail kept
HandleEditKeepingTail(roomState, updatedData) ==
    LET newHistory == Append(roomState.history, updatedData)
    IN  [history |-> newHistory, currentIndex |-> Len(newHistory) - 1]

\* a variant of HandleEdit whose edit function works on the current frame
\* itself, not on a copy: the frame under the cursor is the edited one too
HandleEditInPlace(roomState, updatedData) ==
    LET newHistory == Append(Append(SubSeq(roomState.history, 1, roomState.currentIndex),
                                    updatedData), updatedData)
    IN  [history |-> newHistory, currentIndex |-> Len(newHistory) - 1]

\* what handleEdit makes of a room state, given the edited copy of its current frame
HandleEdit(roomState, updatedData) ==
    LET newHistory == Append(SubSeq(roomState.history, 1, roomState.currentIndex + 1), updatedData)
    IN  [history |-> newHistory, currentIndex |-> Len(newHistory) - 1]

\* a variant of CreateElement that spreads the payload last:
\* { id, userId, ...data.elementData }
CreateElementPayloadLast(currentData, sock, type, elementData, uuid) ==
    LET element == elementData
    IN  IF type = "line" THEN [currentData EXCEPT !.lines = Append(@, element)]
        ELSE IF type = "shape" THEN [currentData EXCEPT !.shapes = Append(@, element)]
        ELSE IF type = "text" THEN [currentData EXCEPT !.texts = Append(@, element)]
        ELSE currentData

\* a variant of CreateElement that puts the element first: unshift for push
CreateElementAtFront(currentData, sock, type, elementData, uuid) ==
    LET element == [elementData EXCEPT !.id = ElementId(type, uuid), !.userId = sock]
    IN  IF type = "line" THEN [currentData EXCEPT !.lines = <<element>> \o @]
        ELSE IF type = "shape" THEN [currentData EXCEPT !.shapes = <<element>> \o @]
        ELSE IF type = "text" THEN [currentData EXCEPT !.texts = <<element>> \o @]
        ELSE currentData

\* the edit function of 'client-create-element'
CreateElement(currentData, sock, type, elementData, uuid) ==
    LET element == [elementData EXCEPT !.id = ElementId(type, uuid), !.userId = sock]
    IN  IF type = "line" THEN [currentData EXCEPT !.lines = Append(@, element)]
        ELSE IF type = "shape" THEN [currentData EXCEPT !.shapes = Append(@, element)]
        ELSE IF type = "text" THEN [currentData EXCEPT !.texts = Append(@, element)]
        ELSE currentData

\* currentData.xs.filter(x => x.id !== data.elementId)
Filter(xs, elementId) ==
    LET Keep(x) == x.id # elementId
    IN  SelectSeq(xs, Keep)

\* a variant of DeleteElement that filters the lines only
DeleteElementFromLines(currentData, elementId) ==
    [currentData EXCEPT !.lines = Filter(@, elementId)]

\* the edit function of 'client-delete-element'
DeleteElement(currentData, elementId) ==
    [lines |-> Filter(currentData.lines, elementId),
     shapes |-> Filter(currentData.shapes, elementId),
     texts |-> Filter(currentData.texts, elementId)]

\* the ids of the elements of a document
IdsOf(doc) ==
    {doc.lines[i].id : i \in 1..Len(doc.lines)}
        \cup {doc.shapes[i].id : i \in 1..Len(doc.shapes)}
        \cup {doc.texts[i].id : i \in 1..Len(doc.texts)}

\* the element ids a client of the room may have seen, and one it cannot have
KnownIds(canvasId) ==
    IF Has(canvasState, canvasId)
    THEN UNION {IdsOf(canvasState[canvasId].history[i]) :
                    i \in 1..Len(canvasState[canvasId].history)}
    ELSE {}

\* the model has room for the frame an edit appends after the cursor
CanGrow(roomState) == roomState.currentIndex + 2 <= MaxHist

\* the common part of the two edit handlers: editFunction has produced
\* updatedData; views are the pages as the event left them
EditSeenBy(views, canvasId, updatedData, uuids) ==
    LET roomState == HandleEdit(canvasState[canvasId], updatedData)
        emitted == UpdateAndBroadcast(canvasId, roomState)
    IN  /\ UNCHANGED <<canvasUsers, currentCanvas, socketRooms, connected, pending,
                       store, saves>>
        /\ nextUuid' = nextUuid + uuids
        /\ canvasState' = [canvasState EXCEPT ![canvasId] = roomState]
        /\ Emit(views, emitted)

\* a handler that finds nothing to do
DroppedSeenBy(views) ==
    /\ UNCHANGED <<canvasState, canvasUsers, currentCanvas, socketRooms, connected,
                   pending, nextUuid, store, saves>>
    /\ Emit(views, <<>>)

Dropped == DroppedSeenBy(client)

\* handleEdit goes on when the room has state; JSON.parse throws, and ends the
\* handler, when there is no current frame to copy
Editable(canvasId) ==
    Has(canvasState, canvasId) /\ CurrentData(canvasState[canvasId]) # Undefined

\* uuid() returns a value that no element carries.  The model numbers the ids
\* that enter a frame; the id made for an element that enters none is not counted.
Kept(type) == IF type \in {"line", "shape", "text"} THEN 1 ELSE 0

\* the handler of 'client-create-element', the pages being views when the
\* event arrives
OnCreateElement(views, sock, canvasId, type, elementData) ==
    /\ connected[sock]
    /\ IF Editable(canvasId)
       THEN /\ CanGrow(canvasState[canvasId])
            /\ nextUuid + Kept(type) <= MaxUuid + 1
            /\ EditSeenBy(views, canvasId,
                          CreateElement(DeepCopy(CurrentData(canvasState[canvasId])),
                                        sock, type, elementData, nextUuid), Kept(type))
       ELSE DroppedSeenBy(views)

ClientCreateElement(sock, canvasId, type, elementData) ==
    OnCreateElement(client, sock, canvasId, type, elementData)

\* the handler of 'client-delete-element', the pages being views when the
\* event arrives
OnDeleteElement(views, sock, canvasId, elementId) ==
    /\ connected[sock]
    /\ IF Editable(canvasId)
       THEN /\ CanGrow(canvasState[canvasId])
            /\ EditSeenBy(views, canvasId,
                          DeleteElement(DeepCopy(CurrentData(canvasState[canvasId])),
                                        elementId), 0)
       ELSE DroppedSeenBy(views)

ClientDeleteElement(sock, canvasId, elementId) ==
    OnDeleteElement(client, sock, canvasId, elementId)

\* ------------------------------------------------------------ undo, redo

\* a variant of UndoAllowed that lets the cursor go below the first frame
UndoAllowedAtZero(map, canvasId) == Has(map, canvasId) /\ map[canvasId].currentIndex >= 0

UndoAllowed(map, canvasId) == Has(map, canvasId) /\ map[canvasId].currentIndex > 0

\* a variant of RedoAllowed that lets the cursor go past the last frame
RedoAllowedPastEnd(map, canvasId) ==
    Has(map, canvasId) /\ map[canvasId].currentIndex < Len(map[canvasId].history)

RedoAllowed(map, canvasId) ==
    Has(map, canvasId) /\ map[canvasId].currentIndex < Len(map[canvasId].history) - 1

\* a variant of Undone that also cuts the history behind the new cursor
UndoneTruncating(roomState) ==
    [history |-> SubSeq(roomState.history, 1, roomState.currentIndex),
     currentIndex |-> roomState.currentIndex - 1]

\* roomState.currentIndex--
Undone(roomState) == [roomState EXCEPT !.currentIndex = @ - 1]

\* a variant of Redone that jumps to the last frame
RedoneToTop(roomState) == [roomState EXCEPT !.currentIndex = Len(roomState.history) - 1]

\* roomState.currentIndex++
Redone(roomState) == [roomState EXCEPT !.currentIndex = @ + 1]

\* the cursor has moved: updateAndBroadcast
MoveIndex(canvasId, roomState) ==
    LET emitted == UpdateAndBroadcast(canvasId, roomState)
    IN  /\ UNCHANGED <<canvasUsers, currentCanvas, socketRooms, connected, pending,
                       nextUuid, store, saves>>
        /\ canvasState' = [canvasState EXCEPT ![canvasId] = roomState]
        /\ Emit(client, emitted)

ClientUndo(sock, canvasId) ==
    /\ connected[sock]
    /\ IF UndoAllowed(canvasState, canvasId)
       THEN MoveIndex(canvasId, Undone(canvasState[canvasId]))
       ELSE Dropped

ClientRedo(sock, canvasId) ==
    /\ connected[sock]
    /\ IF RedoAllowed(canvasState, canvasId)
       THEN MoveIndex(canvasId, Redone(canvasState[canvasId]))
       ELSE Dropped

\* ---------------------------------------------------------------- cursors
\* { userId: socket.id, ...data }: the fields of data come last
RemoteCursor(sock, data) ==
    [kind |-> "remote-cursor",
     userId |-> IF "userId" \in DOMAIN data THEN data.userId ELSE sock,
     canvasId |-> data.canvasId]

\* the data a client sends with 'cursor-move' (x, y and userName left out): the
\* page sends no userId, the handler takes whatever object arrives
CursorData(canvasId) == {[canvasId |-> canvasId], [canvasId |-> canvasId, userId |-> "s1"]}

RemoteCursorLeave(sock) == [kind |-> "remote-cursor-leave", userId |-> sock]

\* a relay handler: socket.to(room).emit(msg), nothing else
Relay(sock, canvasId, msg) ==
    LET emitted == <<[to |-> OthersIn(socketRooms, canvasId, sock), msg |-> msg]>>
    IN  /\ connected[sock]
        /\ UNCHANGED <<canvasState, canvasUsers, currentCanvas, socketRooms, connected,
                       pending, nextUuid, store, saves>>
        /\ Emit(client, emitted)

CursorMove(sock, data) == Relay(sock, data.canvasId, RemoteCursor(sock, data))

CursorLeave(sock, canvasId) == Relay(sock, canvasId, RemoteCursorLeave(sock))

\* ------------------------------------------------------------ disconnect
\* socket.io empties the socket's rooms before 'disconnect' is handled
Disconnect(sock) ==
    LET cc == currentCanvas[sock]
        conn1 == [connected EXCEPT ![sock] = FALSE]
        rooms1 == [socketRooms EXCEPT ![sock] = {}]
        found == cc # Null /\ Has(canvasUsers, cc)
        users1 == IF found THEN UsersWithout(canvasUsers, cc, sock) ELSE canvasUsers
        state1 == IF found THEN StateWithout(canvasState, canvasUsers, cc, sock) ELSE canvasState
        emitted == IF found
                THEN <<[to |-> SocketsIn(rooms1, cc) \ {sock},
                        msg |-> CanvasUsersMsg(canvasUsers[cc] \ {sock})]>>
                ELSE <<>>
        gone == [client EXCEPT ![sock] = NoView]
    IN  /\ connected[sock]
        /\ connected' = conn1
        /\ UNCHANGED <<currentCanvas, pending, nextUuid, store, saves>>
        /\ socketRooms' = rooms1
        /\ canvasUsers' = users1
        /\ canvasState' = state1
        /\ Emit(gone, emitted)

\* ------------------------------------------------------------ auto-save
\* what no handler of the server changes
ServerVars == <<canvasState, canvasUsers, currentCanvas, socketRooms, connected,
                pending, nextUuid>>

\* The timer of the page of s fires: autoSave sends PUT /api/canvas/<canvasId>
\* with the lines, shapes and texts of the render that set the timer.
TimerFires(s) ==
    /\ client[s].timer
    /\ Cardinality(saves) < MaxSaves
    /\ saves' = saves \cup {[from |-> s, canvasId |-> currentCanvas[s],
                              data |-> client[s].state[1].elements]}
    /\ client' = [client EXCEPT ![s].timer = FALSE]
    /\ sent' = <<>>
    /\ UNCHANGED <<ServerVars, store, historyState>>

\* prisma.canvas.update of the PUT route: the data of the request replace the
\* stored document; a canvas that is not found is answered 404
Updated(docs, canvasId, data) ==
    IF docs[canvasId] # NoCanvas THEN [docs EXCEPT ![canvasId] = data] ELSE docs

\* autoSave after its fetch has returned a response: setLastSaved(new Date())
\* whatever the status of the response was, on the page that sent the request
\* if it is still mounted
LastSavedSet(views, sock) ==
    IF connected[sock] THEN [views EXCEPT ![sock].lastSaved = TRUE] ELSE views

\* the PUT route answers a request of a page
SaveDone(p) ==
    /\ p \in saves
    /\ saves' = saves \ {p}
    /\ store' = Updated(store, p.canvasId, p.data)
    /\ client' = LastSavedSet(client, p.from)
    /\ sent' = <<>>
    /\ UNCHANGED <<ServerVars, historyState>>

\* the fetch of autoSave throws (the request did not reach the route): the
\* catch block logs the error
SaveFailed(p) ==
    /\ p \in saves
    /\ saves' = saves \ {p}
    /\ sent' = <<>>
    /\ UNCHANGED <<ServerVars, store, client, historyState>>

\* the page of sock shows a document: a state update has ended its loading
Rendered(sock) ==
    /\ connected[sock]
    /\ client[sock].state # <<>>
    /\ client[sock].state[1].elements # Undefined

\* the lines, shapes and texts of the page of sock
Shown(sock) ==
    IF Rendered(sock) THEN client[sock].state[1].elements ELSE EmptyCanvasData

\* setLines, setShapes, setTexts in a handler of the page: the page shows
\* elements, and the effect of the auto-save sets or clears the timer
Local(views, sock, elements) ==
    [views EXCEPT ![sock].state[1].elements = elements,
                  ![sock].timer = NonEmpty(elements)]

\* the model has room for one more element on a page
CanShow(sock) == Len(Shown(sock).lines \o Shown(sock).shapes \o Shown(sock).texts) < MaxShown

\* handleDrawEnd of the page: the item is appended to the lines or the shapes
\* of the page, then 'client-create-element' is emitted
HandleDrawEnd(sock, canvasId, type, data) ==
    /\ Rendered(sock)
    /\ currentCanvas[sock] = canvasId
    /\ CanShow(sock)
    /\ LET elements == IF type = "line"
                       THEN [Shown(sock) EXCEPT !.lines = Append(@, data)]
                       ELSE [Shown(sock) EXCEPT !.shapes = Append(@, data)]
       IN  OnCreateElement(Local(client, sock, elements), sock, canvasId, type, data)

\* handleTextAdd of the page: the text is appended to the texts of the page,
\* then 'client-create-element' is emitted
HandleTextAdd(sock, canvasId, text) ==
    /\ Rendered(sock)
    /\ currentCanvas[sock] = canvasId
    /\ CanShow(sock)
    /\ LET elements == [Shown(sock) EXCEPT !.texts = Append(@, text)]
       IN  OnCreateElement(Local(client, sock, elements), sock, canvasId, "text", text)

\* handleDeleteItem of the page: the element is filtered out of the lines,
\* shapes and texts of the page, then 'client-delete-element' is emitted
HandleDeleteItem(sock, canvasId, elementId) ==
    /\ Rendered(sock)
    /\ currentCanvas[sock] = canvasId
    /\ LET elements == DeleteElement(Shown(sock), elementId)
       IN  OnDeleteElement(Local(client, sock, elements), sock, canvasId, elementId)

\* what the server emits on the 'canvas-deleted' event of a client: it has no
\* handler for the event
OnCanvasDeleted(sock, canvasId) == <<>>

\* handleConfirmDelete of the delete button: the DELETE route removes the
\* canvas, then the client emits 'canvas-deleted' to the server
DeleteCanvas(sock, canvasId) ==
    /\ connected[sock]
    /\ store[canvasId] # NoCanvas
    /\ store' = [store EXCEPT ![canvasId] = NoCanvas]
    /\ UNCHANGED <<ServerVars, saves>>
    /\ Emit(client, OnCanvasDeleted(sock, canvasId))

\* ------------------------------------------- the drawing component
\* The component keeps a history of its own.  An entry is modelled by the
\* number of lines it holds; after mount the history is the initial entry and
\* the index, counted from 0, is 0.

\* if (newHistory.length > 50)
HistoryCap == 50

\* a variant of Capped that never shifts
CappedNever(newHistory) == newHistory

\* if (newHistory.length > 50) newHistory.shift()
Capped(newHistory) ==
    IF Len(newHistory) > HistoryCap THEN Tail(newHistory) ELSE newHistory

\* the function saveToHistory hands to setHistoryState
Saved(prev, newLines) ==
    LET validHistory == SubSeq(prev.history, 1, prev.index + 1)
        newHistory == Capped(Append(validHistory, newLines))
    IN  [history |-> newHistory, index |-> Len(newHistory) - 1]

\* what is outside the drawing component
OutsideCanvas == <<ServerVars, client, sent, store, saves>>

\* the lines the component shows: those of the entry at the index
Lines == historyState.history[historyState.index + 1]

\* the effect on lines and shapes after a local change
SaveToHistory(newLines) ==
    /\ historyState' = Saved(historyState, newLines)
    /\ UNCHANGED OutsideCanvas

\* undo of the component
Undo ==
    /\ historyState.index > 0
    /\ historyState' = [historyState EXCEPT !.index = @ - 1]
    /\ UNCHANGED OutsideCanvas

\* redo of the component
Redo ==
    /\ historyState.index < Len(historyState.history) - 1
    /\ historyState' = [historyState EXCEPT !.index = @ + 1]
    /\ UNCHANGED OutsideCanvas

\* a stroke is drawn on what the component shows
Draw == Lines < MaxLines /\ SaveToHistory(Lines + 1)

\* The drawing component alone: strokes, undo and redo.
NextCanvas == Draw \/ Undo \/ Redo

SpecCanvas == Init /\ [][NextCanvas]_vars

\* ------------------------------------------------------------------ next
\* one handler run, for the canvas ids the clients use
NextIn(ids) ==
    /\ \/ \E s \in Sessions, r \in ids : JoinCanvas(s, r)
       \/ \E s \in Sessions, r \in ids, o \in LoadOutcomes : LoadDone(s, r, o)
       \/ \E s \in Sessions, r \in ids, t \in Types, e \in ElementPayloads :
               ClientCreateElement(s, r, t, e)
       \/ \E s \in Sessions, r \in ids : \E id \in KnownIds(r) \cup {UnknownId} :
               ClientDeleteElement(s, r, id)
       \/ \E s \in Sessions, r \in ids : ClientUndo(s, r)
       \/ \E s \in Sessions, r \in ids : ClientRedo(s, r)
       \/ \E s \in Sessions : Disconnect(s)
    /\ UNCHANGED historyState

\* one run of a cursor handler
PresenceIn(ids) ==
    /\ \/ \E s \in Sessions, r \in ids : \E d \in CursorData(r) : CursorMove(s, d)
       \/ \E s \in Sessions, r \in ids : CursorLeave(s, r)
    /\ UNCHANGED historyState

\* the canvas the two clients work on
Canvases == {"r1"}

\* joins, edits, undo and redo, disconnects
Next == NextIn(Canvases)

\* the same with the cursor relay
NextPresence == NextIn(Canvases) \/ PresenceIn(Canvases)

Spec == Init /\ [][Next]_vars

SpecPresence == Init /\ [][NextPresence]_vars


\* the clients work on the canvas whose stored document holds several elements
CanvasesStored == {"r3"}

NextStored == NextIn(CanvasesStored)

SpecStored == Init /\ [][NextStored]_vars

\* The clients work on two canvases.  The runs are kept to histories of
\* MaxHistRooms frames and MaxPendingRooms awaited cold-loads.
RoomsBound ==
    /\ \A r \in DOMAIN canvasState : Len(canvasState[r].history) <= MaxHistRooms
    /\ Awaited <= MaxPendingRooms

NextRooms == NextIn(Rooms) /\ RoomsBound'

NextRoomsPresence == (NextIn(Rooms) \/ PresenceIn(Rooms)) /\ RoomsBound'

SpecRooms == Init /\ [][NextRooms]_vars

\* a step of a page's auto-save, of the PUT route or of a delete button
SaveIn(ids) ==
    /\ \/ \E s \in Sessions : TimerFires(s)
       \/ \E p \in saves : SaveDone(p)
       \/ \E p \in saves : SaveFailed(p)
       \/ \E s \in Sessions, r \in ids : DeleteCanvas(s, r)
    /\ UNCHANGED historyState

\* The server with the pages' auto-save and the document store, the runs kept
\* to the same histories and awaited cold-loads as those with two canvases.
NextSave == (NextIn(Canvases) \/ SaveIn(Canvases)) /\ RoomsBound'

SpecSave == Init /\ [][NextSave]_vars

\* one run of a handler of the drawing board of a page
PageIn(ids) ==
    /\ \/ \E s \in Sessions, r \in ids, t \in {"line", "shape"}, e \in ElementPayloads :
               HandleDrawEnd(s, r, t, e)
       \/ \E s \in Sessions, r \in ids, e \in ElementPayloads : HandleTextAdd(s, r, e)
       \/ \E s \in Sessions, r \in ids : \E id \in IdsOf(Shown(s)) :
               HandleDeleteItem(s, r, id)
    /\ UNCHANGED historyState

\* The server with pages as its only clients: they join, edit through the
\* handlers of their drawing boards, save and leave.
NextPage ==
    /\ \/ \E s \in Sessions, r \in Canvases : JoinCanvas(s, r)
       \/ \E s \in Sessions, r \in Canvases, o \in {"ok", "notOk"} : LoadDone(s, r, o)
       \/ PageIn(Canvases)
       \/ \E s \in Sessions : Disconnect(s)
       \/ \E s \in Sessions : TimerFires(s)
       \/ \E p \in saves : SaveDone(p)
       \/ \E p \in saves : SaveFailed(p)
    /\ RoomsBound'
    /\ Cardinality(saves') <= MaxSavesPage
    /\ UNCHANGED historyState

SpecPage == Init /\ [][NextPage]_vars

\* A timer that is set again and again fires in the end (the changes that
\* clear it do not follow each other within its second for ever) and a request
\* that was sent is answered; nothing makes a client send an event.
SaveFairness ==
    /\ \A s \in Sessions : SF_vars(TimerFires(s))
    /\ WF_vars(\E p \in saves : SaveDone(p))

SpecSaveFair == SpecSave /\ SaveFairness

\* The runs in which no client opens a canvas that has been deleted: the
\* sockets in the room of a deleted canvas were in it when it was deleted.
NoJoinOfDeleted ==
    \A s \in Sessions, r \in Canvases : store[r] = NoCanvas => ~JoinCanvas(s, r)

NextDelete == NextSave /\ NoJoinOfDeleted

SpecDeleteFair == Init /\ [][NextDelete]_vars /\ SaveFairness

SpecRoomsPresence == Init /\ [][NextRoomsPresence]_vars

\* ================================================================ claims
\* the steps of the handlers, by the room they name
CreateStep(s, r) == \E t \in Types, e \in ElementPayloads : ClientCreateElement(s, r, t, e)
DeleteStep(s, r) == \E id \in KnownIds(r) \cup {UnknownId} : ClientDeleteElement(s, r, id)
EditStep(r) == \E s \in Sessions : CreateStep(s, r) \/ DeleteStep(s, r)
UndoStep(r) == \E s \in Sessions : ClientUndo(s, r)
RedoStep(r) == \E s \in Sessions : ClientRedo(s, r)

\* the payload a room state calls for, written out from the room state
PayloadOf(roomState) ==
    [kind |-> "server-state-update",
     elements |-> roomState.history[roomState.currentIndex + 1],
     canUndo |-> roomState.currentIndex >= 1,
     canRedo |-> roomState.currentIndex + 1 < Len(roomState.history)]

\* the ids an element of some frame of the room's history carries
IdsInHistory(r) ==
    UNION {IdsOf(canvasState[r].history[i]) : i \in 1..Len(canvasState[r].history)}

\* the last handler broadcast one state update, and nothing else
Broadcast == Len(sent) = 1 /\ sent[1].msg.kind = "server-state-update"

\* C1 (Convergence): every member of a room that has received a state update
\* holds, as the document of the last one, the room's history[currentIndex].
Convergence ==
    \A r \in DOMAIN canvasState : \A s \in UsersOf(canvasUsers, r) :
        client[s].state # <<>> =>
            client[s].state[1].elements = CurrentData(canvasState[r])

\* C2 (History bound): every live room holds at least one and at most H_MAX frames.
HistoryBound ==
    \A r \in DOMAIN canvasState :
        /\ 1 <= Len(canvasState[r].history)
        /\ Len(canvasState[r].history) <= H_MAX

\* C3 (Cursor range): in every live room 0 <= currentIndex < len(history).
CursorRange ==
    \A r \in DOMAIN canvasState :
        /\ 0 <= canvasState[r].currentIndex
        /\ canvasState[r].currentIndex < Len(canvasState[r].history)

\* a room with three frames, its cursor on the middle one
CursorRangeWitness ==
    \E r \in DOMAIN canvasState :
        Len(canvasState[r].history) = 3 /\ canvasState[r].currentIndex = 1

\* C4 (History discipline): a create or delete on a room with history h and
\* cursor c leaves h[0..c] followed by exactly one new frame, the cursor on it.
HistoryDiscipline ==
    [][\A r \in Canvases :
        (Has(canvasState, r) /\ EditStep(r)) =>
            LET h == canvasState[r].history
                c == canvasState[r].currentIndex
                h2 == canvasState'[r].history
            IN  /\ Len(h2) = c + 2
                /\ SubSeq(h2, 1, c + 1) = SubSeq(h, 1, c + 1)
                /\ canvasState'[r].currentIndex = Len(h2) - 1]_vars

\* two edits in a row have been broadcast: three frames, the cursor on the last
HistoryDisciplineWitness ==
    /\ Broadcast
    /\ \E r \in DOMAIN canvasState :
        /\ Len(canvasState[r].history) = 3
        /\ canvasState[r].currentIndex = 2
        /\ sent[1].msg.elements = canvasState[r].history[3]

\* C5 (Redo-tail invalidation): an edit made while a redo is available (M,
\* undo, M') leaves no redo: its state update carries canRedo = false, a redo
\* is refused, and the history ends with the frame of M'.
RedoTailInvalidation ==
    [][\A r \in Canvases :
        (Has(canvasState, r) /\ EditStep(r)
            /\ canvasState[r].currentIndex + 1 < Len(canvasState[r].history)) =>
                /\ ~RedoAllowed(canvasState', r)
                /\ Len(canvasState'[r].history) = canvasState[r].currentIndex + 2
                /\ Len(sent') = 1
                /\ sent'[1].msg.kind = "server-state-update"
                /\ sent'[1].msg.canRedo = FALSE]_vars

\* an edit has been broadcast with undo and without redo, and the element
\* created in this run is in no frame of the history
RedoTailInvalidationWitness ==
    /\ Broadcast
    /\ sent[1].msg.canUndo /\ ~sent[1].msg.canRedo
    /\ nextUuid = 2
    /\ \E r \in DOMAIN canvasState :
        /\ Len(canvasState[r].history) >= 2
        /\ \A id \in IdsInHistory(r) : id.uuid # 1

\* C6 (Undo/redo inverse): after an undo made with cursor > 0 a redo is
\* allowed and gives back the cursor and the current frame of before the undo.
UndoRedoInverse ==
    [][\A r \in Canvases :
        (Has(canvasState, r) /\ canvasState[r].currentIndex > 0 /\ UndoStep(r)) =>
            /\ RedoAllowed(canvasState', r)
            /\ Redone(canvasState'[r]).currentIndex = canvasState[r].currentIndex
            /\ CurrentData(Redone(canvasState'[r])) = CurrentData(canvasState[r])]_vars

\* an undo to the bottom of a history of three frames has been broadcast
UndoRedoInverseWitness ==
    /\ Broadcast
    /\ ~sent[1].msg.canUndo /\ sent[1].msg.canRedo
    /\ \E r \in DOMAIN canvasState : Len(canvasState[r].history) = 3

\* C7 (Broadcast payload): a create, a delete, an undo above the bottom and a
\* redo below the top emit one state update, with the frame and the flags of
\* the room state after the operation, to all members of the room.
BroadcastPayload ==
    [][\A r \in Canvases :
        (/\ Has(canvasState, r)
         /\ \/ EditStep(r)
            \/ UndoStep(r) /\ canvasState[r].currentIndex > 0
            \/ RedoStep(r) /\ canvasState[r].currentIndex + 1 < Len(canvasState[r].history)) =>
                /\ sent' = <<[to |-> UsersOf(canvasUsers, r), msg |-> PayloadOf(canvasState'[r])]>>
                /\ \A m \in UsersOf(canvasUsers, r) :
                    /\ client'[m].state[1].elements = CurrentData(canvasState'[r])
                    /\ client'[m].state[1].canUndo = (canvasState'[r].currentIndex > 0)
                    /\ client'[m].state[1].canRedo = RedoAllowed(canvasState', r)]_vars

\* one state update has gone to both clients, members of the room
BroadcastPayloadWitness ==
    /\ Broadcast
    /\ sent[1].to = Sessions
    /\ \E r \in DOMAIN canvasState : UsersOf(canvasUsers, r) = Sessions

\* C8 (Idempotent delete / unknown id): a delete of an id that is in no
\* collection of the current frame changes nothing and broadcasts nothing.
DeleteUnknownNoOp ==
    [][\A r \in Canvases : \A s \in Sessions : \A id \in KnownIds(r) \cup {UnknownId} :
        (/\ Has(canvasState, r)
         /\ id \notin IdsOf(CurrentData(canvasState[r]))
         /\ ClientDeleteElement(s, r, id)) =>
                canvasState' = canvasState /\ sent' = <<>>]_vars

\* C9 (Boundary no-op): an undo with the cursor at 0 and a redo with the cursor
\* on the last frame leave history and cursor as they are and emit nothing.
BoundaryNoOp ==
    [][\A r \in Canvases :
        (/\ Has(canvasState, r)
         /\ \/ UndoStep(r) /\ canvasState[r].currentIndex = 0
            \/ RedoStep(r) /\ canvasState[r].currentIndex = Len(canvasState[r].history) - 1) =>
                canvasState' = canvasState /\ sent' = <<>> /\ client' = client]_vars

\* a handler has emitted nothing on a room whose cursor is at the bottom of a
\* history of two or more frames, one member at least connected
BoundaryNoOpWitness ==
    /\ sent = <<>>
    /\ \E r \in DOMAIN canvasState :
        /\ canvasState[r].currentIndex = 0
        /\ Len(canvasState[r].history) >= 2
        /\ UsersOf(canvasUsers, r) # {}

\* C10 (NotMember): a create, delete, undo, redo or cursor-move that names a
\* room the sending socket is not a member of leaves the room's history and
\* cursor as they are and reaches none of its members.
NotMemberDropped ==
    [][\A r \in Canvases : \A s \in Sessions :
        (/\ s \notin UsersOf(canvasUsers, r)
         /\ \/ CreateStep(s, r) \/ DeleteStep(s, r)
            \/ ClientUndo(s, r) \/ ClientRedo(s, r)
            \/ \E d \in CursorData(r) : CursorMove(s, d)) =>
                /\ canvasState' = canvasState
                /\ \A i \in DOMAIN sent' : sent'[i].to = {}]_vars

\* the join handler of s for room r runs on after its fetch has returned
LoadStep(s, r) == \E o \in LoadOutcomes : LoadDone(s, r, o)

\* C11 (Single cold-load): a cold-load that completes when the room already
\* has a history and a cursor leaves both as they are: the joiners of a
\* not-yet-live room all end up on the state the one load has made.
SingleColdLoad ==
    [][\A r \in Canvases : \A s \in Sessions :
        (Has(canvasState, r) /\ LoadStep(s, r)) =>
            canvasState'[r] = canvasState[r]]_vars

\* history, cursor and member set of a room, as the two maps hold them
RoomView(state, users, r) ==
    [state |-> IF Has(state, r) THEN <<state[r]>> ELSE <<>>, members |-> UsersOf(users, r)]

\* the step leaves history, cursor and member set of room r as they are
SameRoom(r) ==
    RoomView(canvasState', canvasUsers', r) = RoomView(canvasState, canvasUsers, r)

\* a request of socket s that names room r, the join left aside; a disconnect
\* is addressed to the room its socket is a member of
AddressedTo(s, r) ==
    \/ CreateStep(s, r) \/ DeleteStep(s, r)
    \/ ClientUndo(s, r) \/ ClientRedo(s, r)
    \/ \E d \in CursorData(r) : CursorMove(s, d)
    \/ LoadStep(s, r)
    \/ currentCanvas[s] = r /\ Disconnect(s)

\* C12 (Isolation), as stated: a step that changes history, cursor or member
\* set of a room B is no operation addressed to another room A, the join of A
\* included.
Isolation ==
    [][\A A \in Rooms : \A B \in Rooms \ {A} :
        \/ SameRoom(B)
        \/ ~\E s \in Sessions : AddressedTo(s, A) \/ JoinCanvas(s, A)]_vars

\* C12 (Isolation), amended: the same, but for the join of A by a socket
\* whose current room is B: that join takes the socket out of B.
IsolationButPreviousRoom ==
    [][\A A \in Rooms : \A B \in Rooms \ {A} :
        \/ SameRoom(B)
        \/ ~\E s \in Sessions :
                \/ AddressedTo(s, A)
                \/ currentCanvas[s] # B /\ JoinCanvas(s, A)]_vars

\* an edit of one room has been broadcast to its members while another room
\* had state and members of its own
IsolationWitness ==
    /\ Broadcast
    /\ \E A \in DOMAIN canvasState : \E B \in DOMAIN canvasState \ {A} :
        /\ sent[1].to = UsersOf(canvasUsers, A)
        /\ sent[1].msg.canUndo
        /\ UsersOf(canvasUsers, B) # {}

\* C13 (Room lifecycle): while no join of room r is awaiting its cold-load,
\* state for r exists only if r has a member; a cold-load that completes
\* after the last member has gone does not create state for r.
RoomLifecycle ==
    \A r \in Canvases :
        (\A s \in Sessions : pending[s][r] = 0) =>
            (Has(canvasState, r) => UsersOf(canvasUsers, r) # {})

KeptTypes == {t \in Types : Kept(t) = 1}

\* C15 (Intra-session order): a create that a session sends for room r after
\* its join of r takes effect after the join has completed: when the handler
\* runs the join awaits no load any more, and the element enters the room.
IntraSessionOrder ==
    [][\A r \in Canvases : \A s \in Sessions : \A t \in KeptTypes : \A e \in ElementPayloads :
        (currentCanvas[s] = r /\ ClientCreateElement(s, r, t, e)) =>
            /\ pending[s][r] = 0
            /\ Has(canvasState', r)
            /\ ElementId(t, nextUuid) \in IdsOf(CurrentData(canvasState'[r]))]_vars

\* C16 (Presence relay): a cursor-move or cursor-leave of a member of room r
\* goes, with the sender's socket id as its userId, to the other members of r
\* and to nobody else, and leaves rooms, members and histories as they are.
PresenceRelay ==
    [][\A r \in Canvases : \A s \in UsersOf(canvasUsers, r) :
        ((\E d \in CursorData(r) : CursorMove(s, d)) \/ CursorLeave(s, r)) =>
            /\ Len(sent') = 1
            /\ sent'[1].to = UsersOf(canvasUsers, r) \ {s}
            /\ sent'[1].msg.kind \in {"remote-cursor", "remote-cursor-leave"}
            /\ sent'[1].msg.userId = s
            /\ UNCHANGED <<canvasState, canvasUsers, client>>]_vars

\* what the end of a join of room r by socket s emits, written from the state
\* the step leaves: the current frame with its flags to the joiner, the member
\* set to every member
JoinReplies(s, r) ==
    <<[to |-> IF connected[s] THEN {s} ELSE {}, msg |-> PayloadOf(canvasState'[r])],
      [to |-> UsersOf(canvasUsers', r),
       msg |-> [kind |-> "canvas-users", users |-> UsersOf(canvasUsers', r)]]>>

\* C17 (Join): a join adds the socket to the member set of the room; when the
\* room has its state (at once, or when the cold-load of the join returns)
\* the joiner gets a state update with history[currentIndex] and the flags
\* of the cursor, and every member gets the member set of the room.
JoinEffect ==
    [][\A r \in Canvases : \A s \in Sessions :
        /\ JoinCanvas(s, r) =>
                /\ s \in UsersOf(canvasUsers', r)
                /\ Has(canvasState', r) =>
                        (sent' = JoinReplies(s, r) /\ s \in sent'[2].to)
                /\ ~Has(canvasState', r) => pending'[s][r] = pending[s][r] + 1
        /\ LoadStep(s, r) =>
                /\ Has(canvasState', r)
                /\ sent' = JoinReplies(s, r)
                /\ connected[s] =>
                        client'[s].state[1].elements = CurrentData(canvasState'[r])]_vars

\* a join has answered: the snapshot to the joiner, the member set to the two
\* members of the room, the joiner among them
JoinEffectWitness ==
    /\ Len(sent) = 2
    /\ sent[1].msg.kind = "server-state-update"
    /\ sent[2].msg.kind = "canvas-users"
    /\ sent[2].msg.users = Sessions
    /\ sent[2].to = Sessions
    /\ \E s \in Sessions : sent[1].to = {s}

\* C18 (Leave and disconnect): a step by which a socket stops being a member
\* of a room (a join of another room, a disconnect) sends every member that
\* remains a members update that lists exactly the members that remain.
LeaveNotifies ==
    [][\A r \in Rooms : \A s \in UsersOf(canvasUsers, r) \ UsersOf(canvasUsers', r) :
        \A m \in UsersOf(canvasUsers', r) :
            \E i \in DOMAIN sent' :
                /\ m \in sent'[i].to
                /\ sent'[i].msg = [kind |-> "canvas-users", users |-> UsersOf(canvasUsers', r)]]_vars

\* the rooms whose member set holds socket s
RoomsOf(s) == {r \in DOMAIN canvasUsers : s \in canvasUsers[r]}

\* C19 (At most one room per session): a socket id is in the member set of
\* at most one room, the room its connection has joined last; a join of a
\* second room takes it out of the first.
OneRoomPerSession ==
    \A s \in Sessions :
        /\ Cardinality(RoomsOf(s)) <= 1
        /\ RoomsOf(s) \subseteq {currentCanvas[s]}
        /\ socketRooms[s] \subseteq {currentCanvas[s]}

\* a socket that holds the stored document of one room, which another socket
\* keeps alive, is a member of the other room and of that room only
OneRoomPerSessionWitness ==
    \E s \in Sessions : \E r \in DOMAIN canvasState :
        /\ client[s].state # <<>>
        /\ client[s].state[1].elements = StoredData(r)
        /\ StoredData(r) # EmptyCanvasData
        /\ UsersOf(canvasUsers, r) = Sessions \ {s}
        /\ RoomsOf(s) = Rooms \ {r}

\* the elements of a document, the three collections in a row
ElementsOf(doc) == doc.lines \o doc.shapes \o doc.texts

\* the elements of all frames of all rooms
ElementsInHistory ==
    UNION {UNION {{ElementsOf(canvasState[r].history[i])[k] :
                        k \in DOMAIN ElementsOf(canvasState[r].history[i])} :
                  i \in DOMAIN canvasState[r].history} :
           r \in DOMAIN canvasState}

EmptySnapshot ==
    [kind |-> "server-state-update", elements |-> EmptyCanvasData,
     canUndo |-> FALSE, canRedo |-> FALSE]

\* the end of a join handler whose load has failed
FailedLoadStep(s, r) == \E o \in LoadOutcomes \ {"ok"} : LoadDone(s, r, o)

\* C23: when the load of a room's document fails (the fetch throws, the
\* response is not ok, or its body holds no document) the room gets a history
\* of exactly one empty document with cursor 0, the joiner is sent the empty
\* snapshot with canUndo = canRedo = FALSE, and the room takes joins and edits:
\* it has state, which a join finds without a load, and a current frame to edit.
ColdLoadFailure ==
    [][\A s \in Sessions, r \in Canvases :
          FailedLoadStep(s, r) =>
              /\ canvasState'[r] = [history |-> <<EmptyCanvasData>>, currentIndex |-> 0]
              /\ sent'[1] = [to |-> Self(s), msg |-> EmptySnapshot]
              /\ connected[s] => client'[s].state =
                                    <<[elements |-> EmptyCanvasData,
                                       canUndo |-> FALSE, canRedo |-> FALSE]>>
              /\ Has(canvasState', r) /\ Editable(r)']_vars

\* the load of a canvas that has a stored document has failed: its room holds
\* one empty frame and the joiner has been sent the empty snapshot
ColdLoadFailureWitness ==
    \E s \in Sessions :
        /\ StoredData("r1") # EmptyCanvasData
        /\ Has(canvasState, "r1")
        /\ canvasState["r1"] = [history |-> <<EmptyCanvasData>>, currentIndex |-> 0]
        /\ Len(sent) = 2
        /\ sent[1] = [to |-> {s}, msg |-> EmptySnapshot]
        /\ client[s].state # <<>>
        /\ client[s].state[1].elements = EmptyCanvasData

\* everything of the server but the cursor of room r is as it was
OnlyCursorOf(r) ==
    /\ UNCHANGED <<canvasUsers, currentCanvas, socketRooms, connected, pending, nextUuid>>
    /\ DOMAIN canvasState' = DOMAIN canvasState
    /\ \A q \in DOMAIN canvasState :
          /\ canvasState'[q].history = canvasState[q].history
          /\ q # r => canvasState'[q].currentIndex = canvasState[q].currentIndex

\* C26: an undo or a redo on a room changes nothing but currentIndex, by
\* exactly -1 (undo) or +1 (redo) when the cursor is inside the bounds and by
\* nothing otherwise; the length of the history and every frame are the same
\* before and after.
CursorOnly ==
    [][\A r \in Canvases :
          /\ UndoStep(r) =>
                /\ OnlyCursorOf(r)
                /\ Has(canvasState, r) =>
                      canvasState'[r].currentIndex =
                          canvasState[r].currentIndex - (IF canvasState[r].currentIndex > 0 THEN 1 ELSE 0)
          /\ RedoStep(r) =>
                /\ OnlyCursorOf(r)
                /\ Has(canvasState, r) =>
                      canvasState'[r].currentIndex =
                          canvasState[r].currentIndex +
                              (IF canvasState[r].currentIndex + 1 < Len(canvasState[r].history)
                               THEN 1 ELSE 0)]_vars

\* an undo has run on a room with a history of three frames: the cursor is
\* below the top, the frames above it are still there, the room was told
CursorOnlyWitness ==
    /\ Has(canvasState, "r1")
    /\ Len(canvasState["r1"].history) = 3
    /\ canvasState["r1"].currentIndex = 1
    /\ canvasState["r1"].history[3] # canvasState["r1"].history[2]
    /\ sent = UpdateAndBroadcast("r1", canvasState["r1"])
    /\ sent[1].to # {}

\* C27: a frame that is in a room's history keeps its content.  A create or a
\* delete works on a copy of the current frame, so every frame up to the old
\* cursor is after the edit what it was before; any other handler leaves every
\* frame as it was.  (The end of a cold-load sets a new room state, it changes
\* no frame of the one it replaces, and is left aside.)
FrameImmutability ==
    [][\A r \in Canvases :
          (Has(canvasState, r) /\ Has(canvasState', r) /\ ~(\E s \in Sessions : LoadStep(s, r)))
              => IF EditStep(r)
                 THEN \A i \in 1..(canvasState[r].currentIndex + 1) :
                          /\ i \in DOMAIN canvasState'[r].history
                          /\ canvasState'[r].history[i] = canvasState[r].history[i]
                 ELSE canvasState'[r].history = canvasState[r].history]_vars

\* an edit has been made with the cursor on the second frame: the third frame
\* is new and differs from the second, the first two are in place
FrameImmutabilityWitness ==
    /\ Has(canvasState, "r1")
    /\ canvasState["r1"].currentIndex = 2
    /\ Len(canvasState["r1"].history) = 3
    /\ canvasState["r1"].history[3] # canvasState["r1"].history[2]
    /\ canvasState["r1"].history[2] # canvasState["r1"].history[1]
    /\ sent = UpdateAndBroadcast("r1", canvasState["r1"])
    /\ ~sent[1].msg.canRedo

\* the collection of a document that holds the elements of a type
CollectionOf(type) ==
    IF type = "line" THEN "lines" ELSE IF type = "shape" THEN "shapes" ELSE "texts"

Collections == {"lines", "shapes", "texts"}

\* C28: a create-element of type line, shape or text makes a new frame that is
\* the current frame with exactly one element more, at the end of the
\* collection of that type; the other two collections are as they were and the
\* author of the new element is the id of the socket that sent the create,
\* whatever userId the payload carried.
CreateEffect ==
    [][\A s \in Sessions, r \in CanvasesStored, e \in ElementPayloads :
       \A t \in {"line", "shape", "text"} :
          (Editable(r) /\ ClientCreateElement(s, r, t, e)) =>
              LET old == CurrentData(canvasState[r])
                  new == CurrentData(canvasState'[r])
                  c == CollectionOf(t)
              IN  /\ canvasState'[r].currentIndex = canvasState[r].currentIndex + 1
                  /\ Len(new[c]) = Len(old[c]) + 1
                  /\ SubSeq(new[c], 1, Len(old[c])) = old[c]
                  /\ new[c][Len(new[c])].userId = s
                  /\ e.userId # s
                  /\ \A d \in Collections \ {c} : new[d] = old[d]]_vars

\* a text has been created on the canvas that had two: it is the third of the
\* texts, its author is a socket of the room, the line is where it was
CreateEffectWitness ==
    /\ Has(canvasState, "r3")
    /\ canvasState["r3"].currentIndex = 1
    /\ canvasState["r3"].history[1] = StoredData("r3")
    /\ Len(CurrentData(canvasState["r3"]).texts) = 3
    /\ SubSeq(CurrentData(canvasState["r3"]).texts, 1, 2) = StoredData("r3").texts
    /\ CurrentData(canvasState["r3"]).texts[3].userId \in Sessions
    /\ CurrentData(canvasState["r3"]).lines = StoredData("r3").lines
    /\ sent = UpdateAndBroadcast("r3", canvasState["r3"])

\* the positions of a collection whose element does not carry the id
KeptPositions(xs, id) == {i \in 1..Len(xs) : xs[i].id # id}

\* ys holds the elements of xs that do not carry the id, and no other, each
\* at the place its rank among the kept ones gives it
WithoutId(xs, ys, id) ==
    LET K == KeptPositions(xs, id)
    IN  /\ Len(ys) = Cardinality(K)
        /\ \A i \in K : ys[Cardinality({j \in K : j <= i})] = xs[i]

\* C29: a delete-element with an id that the current frame holds makes a new
\* frame in which no element of any collection carries that id and every
\* other element is kept, in its collection and in the order it had.
DeleteEffect ==
    [][\A s \in Sessions, r \in CanvasesStored :
          Editable(r) =>
              \A id \in IdsOf(CurrentData(canvasState[r])) :
                  ClientDeleteElement(s, r, id) =>
                      LET old == CurrentData(canvasState[r])
                          new == CurrentData(canvasState'[r])
                      IN  /\ canvasState'[r].currentIndex = canvasState[r].currentIndex + 1
                          /\ id \notin IdsOf(new)
                          /\ \A c \in Collections : WithoutId(old[c], new[c], id)]_vars

\* the first of three texts has been deleted: the two others are the texts
\* of the new frame, in their order, and the line is in place
DeleteEffectWitness ==
    /\ Has(canvasState, "r3")
    /\ canvasState["r3"].currentIndex = 2
    /\ Len(canvasState["r3"].history) = 3
    /\ Len(canvasState["r3"].history[2].texts) = 3
    /\ CurrentData(canvasState["r3"]).texts = Tail(canvasState["r3"].history[2].texts)
    /\ CurrentData(canvasState["r3"]).lines = canvasState["r3"].history[2].lines
    /\ Len(CurrentData(canvasState["r3"]).lines) = 1
    /\ sent = UpdateAndBroadcast("r3", canvasState["r3"])

\* the createdAt values the elements of the frames of a room carry
CreatedAtIn(r) ==
    UNION {{ElementsOf(canvasState[r].history[i])[k].createdAt :
                k \in 1..Len(ElementsOf(canvasState[r].history[i]))} :
           i \in 1..Len(canvasState[r].history)}

\* the element a create has put at the end of its collection
Created(r, t) ==
    LET new == CurrentData(canvasState'[r])[CollectionOf(t)]
    IN  new[Len(new)]

\* C30: the createdAt of a created element is greater than the createdAt of
\* every element the room already holds, whatever the payload carried.
MonotonicCreatedAt ==
    [][\A s \in Sessions, r \in Canvases, e \in ElementPayloads :
       \A t \in {"line", "shape", "text"} :
          (Editable(r) /\ ClientCreateElement(s, r, t, e)) =>
              \A n \in CreatedAtIn(r) : Created(r, t).createdAt > n]_vars

\* a create, a delete, an undo or a redo has been applied to the room
Changed(r) == Has(canvasState, r) /\ Len(canvasState[r].history) >= 2

\* a save with the current document of the room has been sent, or has been
\* answered and is what the store holds
SaveIssued(r) ==
    /\ Has(canvasState, r)
    /\ \/ \E p \in saves : p.canvasId = r /\ p.data = CurrentData(canvasState[r])
       \/ store[r] = CurrentData(canvasState[r])

\* the current document of the room holds an element
HoldsElement(r) == Has(canvasState, r) /\ NonEmpty(CurrentData(canvasState[r]))

\* the room has state and a socket in it, and its canvas is in the store
Attended(r) ==
    Has(canvasState, r) /\ SocketsIn(socketRooms, r) # {} /\ store[r] # NoCanvas

\* C21, for the empty document: after a change that leaves the current
\* document of a room empty, a save with that document is sent to the document
\* store in the end, unless the document gets an element again first.
\* (Stated for the rooms that keep a member and whose canvas is not deleted.)
WarmSaveLiveness ==
    \A r \in Canvases :
        []((Changed(r) /\ Attended(r) /\ ~HoldsElement(r))
              => <>(SaveIssued(r) \/ ~Attended(r) \/ HoldsElement(r)))

\* the saves for a canvas that have been sent and not answered
InFlight(r) == {p \in saves : p.canvasId = r}

\* C22: at most one save per room is unanswered at any time; a change of the
\* document while a save is unanswered starts no other save before the answer.
WriteCoalescing == \A r \in Canvases : Cardinality(InFlight(r)) <= 1

\* The history of the room starts on the empty document although the store
\* holds a document with elements for its canvas: the cold-load of the room
\* has failed.  (No save carries the empty document, so the store of a canvas
\* that had elements never holds it.)
LoadFailed(r) ==
    /\ Has(canvasState, r)
    /\ canvasState[r].history[1] = EmptyCanvasData
    /\ NonEmpty(store[r]) /\ store[r] # NoCanvas

\* the document is a frame of the history of the room
FrameOf(r, data) ==
    \E i \in 1..Len(canvasState[r].history) : canvasState[r].history[i] = data

\* C24: once the cold-load of a room has failed, no save for its canvas is
\* sent that puts a document built on the empty fallback in the place of the
\* stored one.
NoOverwriteAfterFailedLoad ==
    \A r \in Canvases : \A p \in InFlight(r) :
        LoadFailed(r) => ~(FrameOf(r, p.data) /\ p.data # store[r])

\* the sockets in the room whose page has not had 'canvas-deleted'
Unnotified(r) == {m \in SocketsIn(socketRooms, r) : ~client[m].deleted}

\* C25: when a canvas is deleted from the document store while sockets are in
\* its room, every member other than the one that deleted it gets a
\* 'canvas-deleted' message in the end: of the sockets in the room at most
\* one, the deleting one, stays without it.
DeleteNotification ==
    \A r \in Canvases :
        [](store[r] = NoCanvas => <>(Cardinality(Unnotified(r)) <= 1))

\* a create with a type tag that is none of line, shape, text
MalformedCreate(s, r) ==
    \E t \in Types \ {"line", "shape", "text"}, e \in ElementPayloads :
        ClientCreateElement(s, r, t, e)

\* C31: a create-element whose type tag is none of line, shape, text leaves
\* the history of the room, its cursor and with them the redo availability
\* as they were, and no state update is emitted.
MalformedCreateDropped ==
    [][\A s \in Sessions, r \in Canvases :
          MalformedCreate(s, r) => (canvasState' = canvasState /\ sent' = <<>>)]_vars

\* the PUT route answers the request p with an error status: the canvas is not
\* in the store
ErrorResponse(p) == SaveDone(p) /\ store[p.canvasId] = NoCanvas

\* C32: a save that ends in an error response or in an exception leaves the
\* page that asked for it recorded as it was, not as saved.
SavedOnlyOnSuccess ==
    [][\A p \in saves :
          (ErrorResponse(p) \/ SaveFailed(p)) =>
              client'[p.from].lastSaved = client[p.from].lastSaved]_vars

\* an element as a frame of the room can hold it: the create handler gave it
\* the id of the socket that sent it, or the store held it from the start
Accepted(r, e) ==
    \/ e.userId \in Sessions
    \/ \E i \in 1..Len(ElementsOf(StoredData(r))) : ElementsOf(StoredData(r))[i] = e

\* C33: every element of a document in the document store is one that the
\* server accepted into a frame of the room; an element whose create was
\* dropped is in no stored document.
PersistedAreServerFrames ==
    \A r \in Canvases :
        store[r] # NoCanvas =>
            \A i \in 1..Len(ElementsOf(store[r])) : Accepted(r, ElementsOf(store[r])[i])

\* socket s, a member of room r, sends 'join-canvas' for r again
Rejoin(s, r) ==
    /\ currentCanvas[s] = r
    /\ s \in UsersOf(canvasUsers, r)
    /\ JoinCanvas(s, r)

\* C34: a join of room r by a socket that is a member of r leaves the history
\* and the cursor of r as they were, also when the socket is the only member.
RejoinPreservesHistory ==
    [][\A s \in Sessions, r \in Canvases :
          (Has(canvasState, r) /\ Rejoin(s, r)) =>
              (Has(canvasState', r) /\ canvasState'[r] = canvasState[r])]_vars

\* the sockets a state update of the step is emitted to
StateUpdateTo ==
    UNION {sent'[i].to : i \in {j \in DOMAIN sent' : sent'[j].msg.kind = "server-state-update"}}

\* C35: when the cold-load of room r completes for a socket whose current
\* room is no longer r, the snapshot of r is not sent to that socket and no
\* state for r is left behind.
StaleLoadDiscarded ==
    [][\A s \in Sessions, r \in Rooms :
          (currentCanvas[s] # r /\ LoadStep(s, r)) =>
              /\ s \notin StateUpdateTo
              /\ Has(canvasState', r) => Has(canvasState, r)]_vars

\* C36: a socket id is in the member set of room r exactly when the socket is
\* connected and its current room is r, and the registry maps no room to an
\* empty member set.
RegistryConsistency ==
    /\ \A s \in Sessions, r \in Rooms :
          s \in UsersOf(canvasUsers, r) <=> (connected[s] /\ currentCanvas[s] = r)
    /\ \A r \in DOMAIN canvasUsers : canvasUsers[r] # {}

\* one socket has moved from a room to the other, which left the first room
\* without an entry, and the other socket has disconnected from its room
RegistryConsistencyWitness ==
    \E s \in Sessions, t \in Sessions :
        /\ connected[s] /\ ~connected[t]
        /\ currentCanvas[t] # Null
        /\ DOMAIN canvasUsers = {currentCanvas[s]}
        /\ currentCanvas[s] # currentCanvas[t]
        /\ Has(canvasState, currentCanvas[s])

\* the entries of a history from position first on
From(history, first) == SubSeq(history, first, Len(history))

\* C37: after mount the history of the drawing component has between 1 and
\* 50 entries and the index points into it at every state; saveToHistory
\* drops the entries after the index, appends the new one, keeps the last 50
\* and leaves the index at the last entry; undo and redo move the index by
\* one and leave the entries as they are.
LocalHistory ==
    /\ [](/\ Len(historyState.history) \in 1..HistoryCap
          /\ historyState.index \in 0..(Len(historyState.history) - 1))
    /\ [][Draw =>
            LET appended == Append(SubSeq(historyState.history, 1, historyState.index + 1),
                                   Lines + 1)
                kept == IF Len(appended) > HistoryCap THEN HistoryCap ELSE Len(appended)
            IN  /\ historyState'.history = From(appended, Len(appended) - kept + 1)
                /\ historyState'.index = kept - 1]_vars
    /\ [][Undo => /\ historyState'.history = historyState.history
                  /\ historyState'.index = historyState.index - 1]_vars
    /\ [][Redo => /\ historyState'.history = historyState.history
                  /\ historyState'.index = historyState.index + 1]_vars

\* the history is full, its first entries have been shifted out, and undo has
\* moved the index off the last entry
LocalHistoryWitness ==
    /\ Len(historyState.history) = HistoryCap
    /\ historyState.history[1] > 0
    /\ historyState.index < HistoryCap - 1
====
